---- MODULE Spec2Model ----
(***************************************************************************)
(* Model of the "renew" extension: the 'renew.redesign' command walks the  *)
(* node tree of every HTML document of the workspace, rephrases text nodes *)
(* and regenerates images under two generation limits, and writes the      *)
(* serialized tree back as one whole-text edit.                            *)
(*                                                                         *)
(* Strings are sequences of one-character strings.                         *)
(***************************************************************************)
EXTENDS Integers, Sequences, FiniteSets, TLC

(***************************************************************************)
(* Bounds of the model.                                                    *)
(***************************************************************************)
\* largest value drawn for textGenLimit / imageGenLimit
MaxLimit == 2
\* largest number of documents findFiles returns
MaxFiles == 2

(***************************************************************************)
(* Strings.                                                                *)
(***************************************************************************)
IsWhite(c) == c \in {" ", "\n", "\t"}

RECURSIVE TrimStart(_)
TrimStart(s) ==
    IF s = <<>> THEN <<>>
    ELSE IF IsWhite(Head(s)) THEN TrimStart(Tail(s)) ELSE s

RECURSIVE TrimEnd(_)
TrimEnd(s) ==
    IF s = <<>> THEN <<>>
    ELSE IF IsWhite(s[Len(s)]) THEN TrimEnd(SubSeq(s, 1, Len(s) - 1)) ELSE s

\* String.prototype.trim
Trim(s) == TrimEnd(TrimStart(s))

\* s.startsWith(t, i)  (1-based i)
MatchAt(s, t, i) ==
    /\ i + Len(t) - 1 <= Len(s)
    /\ \A k \in 1..Len(t) : s[i + k - 1] = t[k]

\* s.indexOf(t), 1-based; 0 when t does not occur in s
IndexOf(s, t) ==
    LET hits == {i \in 1..(Len(s) + 1) : MatchAt(s, t, i)}
    IN  IF hits = {} THEN 0 ELSE CHOOSE i \in hits : \A j \in hits : i <= j

\* GetSubstitution of String.prototype.replace for a string pattern (no
\* capture groups): $$ -> $, $& -> the match, $` -> the text before the
\* match, $' -> the text after it; every other character is literal.
RECURSIVE GetSubstitution(_, _, _, _)
GetSubstitution(rep, matched, before, after) ==
    IF rep = <<>> THEN <<>>
    ELSE IF Head(rep) = "$" /\ Len(rep) >= 2
         THEN LET c    == rep[2]
                  rest == SubSeq(rep, 3, Len(rep))
              IN  IF c = "$" THEN <<"$">> \o GetSubstitution(rest, matched, before, after)
                  ELSE IF c = "&" THEN matched \o GetSubstitution(rest, matched, before, after)
                  ELSE IF c = "`" THEN before \o GetSubstitution(rest, matched, before, after)
                  ELSE IF c = "'" THEN after \o GetSubstitution(rest, matched, before, after)
                  ELSE <<"$">> \o GetSubstitution(Tail(rep), matched, before, after)
         ELSE <<Head(rep)>> \o GetSubstitution(Tail(rep), matched, before, after)

\* s.replace(pat, rep) with a string pattern: the first occurrence only
StringReplace(s, pat, rep) ==
    LET i == IndexOf(s, pat)
    IN  IF i = 0 THEN s
        ELSE LET before == SubSeq(s, 1, i - 1)
                 after  == SubSeq(s, i + Len(pat), Len(s))
             IN  before \o GetSubstitution(rep, pat, before, after) \o after

\* node.data = node.data?.replace(originalText, replacementText)
\* where originalText = node.data.trim()
ReplaceNodeData(data, replacementText) ==
    StringReplace(data, Trim(data), replacementText)

(***************************************************************************)
(* Paths.                                                                  *)
(***************************************************************************)
RECURSIVE TrimSlashes(_)
TrimSlashes(p) ==
    IF p = <<>> THEN <<>>
    ELSE IF p[Len(p)] = "/" THEN TrimSlashes(SubSeq(p, 1, Len(p) - 1)) ELSE p

\* 1-based index of the last occurrence of character c in p, 0 when absent
LastIndexOf(p, c) ==
    LET hits == {i \in 1..Len(p) : p[i] = c}
    IN  IF hits = {} THEN 0 ELSE CHOOSE i \in hits : \A j \in hits : j <= i

\* path.parse (posix): root, dir, base, name, ext
PathParse(p) ==
    LET root == IF p # <<>> /\ p[1] = "/" THEN <<"/">> ELSE <<>>
        pe   == TrimSlashes(p)
        sp   == LastIndexOf(pe, "/")
        base == SubSeq(pe, sp + 1, Len(pe))
        d    == LastIndexOf(base, ".")
        noExt == d <= 1 \/ base = <<".", ".">>
        dir  == IF sp > 1 THEN SubSeq(pe, 1, sp - 1) ELSE root
    IN  [root |-> root, dir |-> dir, base |-> base,
         name |-> IF noExt THEN base ELSE SubSeq(base, 1, d - 1),
         ext  |-> IF noExt THEN <<>> ELSE SubSeq(base, d, Len(base))]

\* path.format of an object without base: dir, name and ext are used
PathFormat(o) ==
    LET dir  == IF o.dir # <<>> THEN o.dir ELSE o.root
        base == o.name \o o.ext
    IN  IF dir = <<>> THEN base
        ELSE IF dir = o.root THEN dir \o base
        ELSE dir \o <<"/">> \o base

PngExt == <<".", "p", "n", "g">>

replaceFileExtensionToPng(filePath) ==
    LET parsedPath == PathParse(filePath)
    IN  PathFormat([parsedPath EXCEPT !.ext = PngExt])

\* the files findFiles('**/' + fileName) returns: those whose path ends
\* with "/" followed by fileName
GlobMatches(files, fileName) ==
    {p \in files :
        /\ Len(p) > Len(fileName)
        /\ SubSeq(p, Len(p) - Len(fileName), Len(p)) = <<"/">> \o fileName}

(***************************************************************************)
(* Document trees.  A document is [roots, nodes]: nodes is the sequence of *)
(* its nodes (a node's id is its index), roots the children of the root.   *)
(* A node has type "tag" or "text"; src is the src attribute (<<>> when    *)
(* absent or empty), data the payload of a text node.                      *)
(***************************************************************************)
Tag(name, children) ==
    [type |-> "tag", name |-> name, src |-> <<>>, data |-> <<>>, children |-> children]

Img(src) ==
    [type |-> "tag", name |-> "img", src |-> src, data |-> <<>>, children |-> <<>>]

Text(data) ==
    [type |-> "text", name |-> "", src |-> <<>>, data |-> data, children |-> <<>>]

SrcA == <<"a", ".", "j", "p", "g">>
SrcB == <<"i", "/", "b", ".", "p", "n", "g">>
SrcX == <<"x", ".", "g", "i", "f">>

\* <p> Hi </p><img src="a.jpg">
DocA ==
    [roots |-> <<1, 3>>,
     nodes |-> << Tag("p", <<2>>), Text(<<" ", "H", "i", " ">>), Img(SrcA) >>]

\* <div>\n<p>a</p>b <img src="i/b.png">c<img src="x.gif"></div>
DocB ==
    [roots |-> <<1>>,
     nodes |-> << Tag("div", <<2, 3, 5, 6, 7, 8>>), Text(<<"\n">>), Tag("p", <<4>>),
                  Text(<<"a">>), Text(<<"b", " ">>), Img(SrcB), Text(<<"c">>),
                  Img(SrcX) >>]

\* <img><img src="a.jpg"><img src="a.jpg">t
DocC ==
    [roots |-> <<1, 2, 3, 4>>,
     nodes |-> << Img(<<>>), Img(SrcA), Img(SrcA), Text(<<"t">>) >>]

\* <img src="a.jpg">a<br> b
DocE ==
    [roots |-> <<1, 2, 3, 4>>,
     nodes |-> << Img(SrcA), Text(<<"a">>), Tag("br", <<>>), Text(<<" ", "b">>) >>]

\* the documents of a workspace are drawn from these
Templates == {DocA, DocB, DocC}

\* the image files a workspace may hold
FileA  == <<"/", "a", ".", "j", "p", "g">>
FileA2 == <<"/", "o", "/", "a", ".", "j", "p", "g">>
FileB  == <<"/", "i", "/", "b", ".", "p", "n", "g">>

Workspaces == { {}, {FileA, FileB}, {FileA, FileA2, FileB} }

\* what the rephraser may answer
Replies == { <<"O", "k">>, <<"$", "$", "1">> }

Runs == {1, 2}

(***************************************************************************)
(* State.                                                                  *)
(***************************************************************************)
VARIABLES
    textGenLimit,      \* let textGenLimit, set by activate
    imageGenLimit,     \* let imageGenLimit, set by activate
    textGenerations,   \* module-level counter
    imageGenerations,  \* module-level counter
    documents,         \* the host's documents (the *.html files), in discovery order
    origDocs,          \* history: the documents as they were before any run
    disk,              \* image files of the workspace: path -> kind of content
    pc,                \* per run: where the command handler is suspended
    fileIdx,           \* per run: index of the document being processed
    dom,               \* per run: the parsed tree of that document
    todo,              \* per run: nodes still to visit, in visiting order
    updatedText,       \* per run: the serialized tree handed to applyEdit
    cur,               \* per run: node whose processing is suspended
    imgPath,           \* per run: resolved path of the image being replaced
    message,           \* per run: the closing information message
    cancelRequested,   \* per run: the progress token's cancellation state
    pending,           \* external calls in flight
    conv,              \* the call of convertImageToPng followed step by step
    currentInfo,       \* let currentInfo of that call: width, height, size
    trace              \* history: per run, every step it took, in order

vars == << textGenLimit, imageGenLimit, textGenerations, imageGenerations,
           documents, origDocs, disk, pc, fileIdx, dom, todo, updatedText, cur, imgPath, message,
           cancelRequested, pending, conv, currentInfo, trace >>

NoDoc == [roots |-> <<>>, nodes |-> <<>>]

NoInfo == [width |-> 0, height |-> 0, size |-> 0]

\* no call of convertImageToPng is being followed
NoConv ==
    [pc |-> "idle", inputPath |-> <<>>, outputPath |-> <<>>, iterations |-> 0,
     widths |-> <<>>, written |-> <<>>, outcome |-> "none"]

\* one entry of the history
Ev(r, op, n, kind, ok, used, arg) ==
    [run |-> r, op |-> op, file |-> fileIdx[r], node |-> n, kind |-> kind,
     ok |-> ok, used |-> used, arg |-> arg]

Log(r, evs) == trace' = [trace EXCEPT ![r] = @ \o evs]

Call(r, kind, n) == [run |-> r, kind |-> kind, file |-> fileIdx[r], node |-> n]

SeqsUpTo(S, n) == UNION {[1..k -> S] : k \in 1..n}

\* the state when the extension is activated, its documents drawn from T,
\* no two of them with the same text
InitWith(T) ==
    /\ textGenLimit \in 0..MaxLimit
    /\ imageGenLimit \in 0..MaxLimit
    /\ textGenerations = 0
    /\ imageGenerations = 0
    /\ documents \in SeqsUpTo(T, MaxFiles)
    /\ \A i, j \in DOMAIN documents : i # j => documents[i] # documents[j]
    /\ origDocs = documents
    /\ \E w \in Workspaces : disk = [p \in w |-> "orig"]
    /\ pc = [r \in Runs |-> "idle"]
    /\ fileIdx = [r \in Runs |-> 0]
    /\ dom = [r \in Runs |-> NoDoc]
    /\ todo = [r \in Runs |-> <<>>]
    /\ updatedText = [r \in Runs |-> NoDoc]
    /\ cur = [r \in Runs |-> 0]
    /\ imgPath = [r \in Runs |-> <<>>]
    /\ message = [r \in Runs |-> "none"]
    /\ cancelRequested = [r \in Runs |-> FALSE]
    /\ pending = {}
    /\ conv = NoConv
    /\ currentInfo = NoInfo
    /\ trace = [r \in Runs |-> <<>>]

Init == InitWith(Templates)

(***************************************************************************)
(* The walk's decisions.                                                   *)
(***************************************************************************)
\* node.type === 'tag' && node.name === 'img' && node.attribs?.src
IsImageCandidate(node) ==
    node.type = "tag" /\ node.name = "img" /\ node.src # <<>>

\* mutant of IsTextCandidate: the content is tested without trim()
IsTextCandidateNoTrim(node) ==
    node.type = "text" /\ node.data # <<>>

\* node.type === 'text' && node.data.trim()
IsTextCandidate(node) ==
    node.type = "text" /\ Trim(node.data) # <<>>

\* mutant of CanReserve: the limit is tested with > instead of >=
CanReserveOffByOne(used, limit) == used <= limit

\* the test both limits are checked with: used >= limit returns, else used++
CanReserve(used, limit) == used < limit

\* mutant of VisitOrder: the children are taken last to first
VisitOrderReversed(children) ==
    [i \in 1..Len(children) |-> children[Len(children) + 1 - i]]

\* for (const child of node.children) await traverseNodes(child)
VisitOrder(children) == children

\* mutant of DocumentWanted: the two tests are joined with && instead of ||
DocumentWantedBoth ==
    imageGenerations < imageGenLimit /\ textGenerations < textGenLimit

\* if (imageGenerations < imageGenLimit || textGenerations < textGenLimit)
DocumentWanted ==
    imageGenerations < imageGenLimit \/ textGenerations < textGenLimit

\* the information message that closes a run
ClosingMessage ==
    IF textGenerations >= textGenLimit THEN "textLimit"
    ELSE IF imageGenerations >= imageGenLimit THEN "imageLimit"
    ELSE "complete"

SetNode(r, n, field, value) ==
    dom' = [dom EXCEPT ![r].nodes[n][field] = value]

WriteFile(path, kind) ==
    disk' = [p \in DOMAIN disk \cup {path} |-> IF p = path THEN kind ELSE disk[p]]

CurNode(r) == dom[r].nodes[cur[r]]

MyCall(r, kind) == Call(r, kind, cur[r])

\* A handler runs until it awaits something external: while a run is inside
\* the walk (between two such awaits) nothing else is scheduled.
EventLoopFree(r) == \A q \in Runs \ {r} : pc[q] # "walk"

\* run r is where `at` says and it is its turn
Scheduled(r, at) == pc[r] = at /\ EventLoopFree(r)

\* the for loop of replaceContentInFiles, about to take document i
LoopFiles(r, i) ==
    IF i <= Len(documents)
    THEN /\ pc' = [pc EXCEPT ![r] = "openDoc"]
         /\ fileIdx' = [fileIdx EXCEPT ![r] = i]
         /\ message' = message
    ELSE /\ pc' = [pc EXCEPT ![r] = "done"]
         /\ fileIdx' = fileIdx
         /\ message' = [message EXCEPT ![r] = ClosingMessage]

(***************************************************************************)
(* The command 'renew.redesign'.                                           *)
(***************************************************************************)
\* the command handler up to its first suspension (await findFiles)
Invoke(r) ==
    /\ Scheduled(r, "idle")
    /\ imageGenerations' = 0
    /\ textGenerations' = 0
    /\ pc' = [pc EXCEPT ![r] = "findFiles"]
    /\ Log(r, << Ev(r, "invoke", 0, "", TRUE, 0, <<>>) >>)
    /\ UNCHANGED << conv, currentInfo, origDocs, updatedText, textGenLimit, imageGenLimit, documents, disk, fileIdx, dom,
                    todo, cur, imgPath, message, cancelRequested, pending >>

\* token.onCancellationRequested: the handler logs and does nothing else
RequestCancel(r) ==
    /\ pc[r] \notin {"idle", "done", "failed", "walk"}
    /\ EventLoopFree(r)
    /\ ~cancelRequested[r]
    /\ cancelRequested' = [cancelRequested EXCEPT ![r] = TRUE]
    /\ UNCHANGED << conv, currentInfo, origDocs, updatedText, textGenLimit, imageGenLimit, textGenerations, imageGenerations,
                    documents, disk, pc, fileIdx, dom, todo, cur, imgPath, message,
                    pending, trace >>

FindFilesDone(r) ==
    /\ Scheduled(r, "findFiles")
    /\ LoopFiles(r, 1)
    /\ UNCHANGED << conv, currentInfo, origDocs, updatedText, textGenLimit, imageGenLimit, textGenerations, imageGenerations,
                    documents, disk, dom, todo, cur, imgPath, cancelRequested,
                    pending, trace >>

\* openTextDocument resolved: the document is parsed and walked, or skipped
OpenDocDone(r) ==
    /\ Scheduled(r, "openDoc")
    /\ IF DocumentWanted
       THEN /\ dom' = [dom EXCEPT ![r] = documents[fileIdx[r]]]
            /\ todo' = [todo EXCEPT ![r] = VisitOrder(documents[fileIdx[r]].roots)]
            /\ pc' = [pc EXCEPT ![r] = "walk"]
            /\ Log(r, << Ev(r, "parse", 0, "", TRUE, 0, <<>>) >>)
            /\ UNCHANGED << fileIdx, message >>
       ELSE /\ LoopFiles(r, fileIdx[r] + 1)
            /\ Log(r, << Ev(r, "skip", 0, "", TRUE, 0, <<>>) >>)
            /\ UNCHANGED << dom, todo >>
    /\ UNCHANGED << conv, currentInfo, origDocs, updatedText, textGenLimit, imageGenLimit, textGenerations, imageGenerations,
                    documents, disk, cur, imgPath, cancelRequested, pending >>

(***************************************************************************)
(* traverseNodes.                                                          *)
(***************************************************************************)
\* an image candidate: the resolver is asked for the file
VisitImage(r) ==
    /\ Scheduled(r, "walk") /\ todo[r] # <<>>
    /\ LET n == Head(todo[r]) IN
       /\ IsImageCandidate(dom[r].nodes[n])
       /\ cur' = [cur EXCEPT ![r] = n]
       /\ todo' = [todo EXCEPT ![r] = Tail(todo[r])]
       /\ pc' = [pc EXCEPT ![r] = "resolve"]
       /\ pending' = pending \cup {Call(r, "resolve", n)}
       /\ Log(r, << Ev(r, "visit", n, "", TRUE, 0, <<>>),
                 Ev(r, "resolve", n, "image", TRUE, 0, dom[r].nodes[n].src) >>)
    /\ UNCHANGED << conv, currentInfo, origDocs, updatedText, textGenLimit, imageGenLimit, textGenerations, imageGenerations,
                    documents, disk, fileIdx, dom, imgPath, message, cancelRequested >>

\* mutant of VisitText: a node is sent to the rephraser although the
\* reservation failed
VisitTextBypass(r) ==
    /\ Scheduled(r, "walk") /\ todo[r] # <<>>
    /\ LET n == Head(todo[r]) IN
       /\ IsTextCandidate(dom[r].nodes[n])
       /\ todo' = [todo EXCEPT ![r] = Tail(todo[r])]
       /\ textGenerations' =
             IF CanReserve(textGenerations, textGenLimit)
             THEN textGenerations + 1 ELSE textGenerations
       /\ cur' = [cur EXCEPT ![r] = n]
       /\ pc' = [pc EXCEPT ![r] = "rephrase"]
       /\ pending' = pending \cup {Call(r, "rephrase", n)}
       /\ Log(r, << Ev(r, "visit", n, "", TRUE, 0, <<>>),
                 Ev(r, "reserve", n, "text",
                    CanReserve(textGenerations, textGenLimit), textGenerations, <<>>),
                 Ev(r, "rephrase", n, "text", TRUE, 0, Trim(dom[r].nodes[n].data)) >>)
    /\ UNCHANGED << conv, currentInfo, origDocs, updatedText, textGenLimit, imageGenLimit, imageGenerations, documents,
                    disk, fileIdx, dom, imgPath, message, cancelRequested >>

\* mutant of VisitText: the counter is incremented before the limit is tested
VisitTextCountsAlways(r) ==
    /\ Scheduled(r, "walk") /\ todo[r] # <<>>
    /\ LET n == Head(todo[r]) IN
       /\ IsTextCandidate(dom[r].nodes[n])
       /\ todo' = [todo EXCEPT ![r] = Tail(todo[r])]
       /\ textGenerations' = textGenerations + 1
       /\ IF CanReserve(textGenerations, textGenLimit)
          THEN /\ cur' = [cur EXCEPT ![r] = n]
               /\ pc' = [pc EXCEPT ![r] = "rephrase"]
               /\ pending' = pending \cup {Call(r, "rephrase", n)}
               /\ Log(r, << Ev(r, "visit", n, "", TRUE, 0, <<>>),
                         Ev(r, "reserve", n, "text", TRUE, textGenerations, <<>>),
                         Ev(r, "rephrase", n, "text", TRUE, 0,
                            Trim(dom[r].nodes[n].data)) >>)
          ELSE /\ Log(r, << Ev(r, "visit", n, "", TRUE, 0, <<>>),
                         Ev(r, "reserve", n, "text", FALSE, textGenerations, <<>>) >>)
               /\ UNCHANGED << cur, pc, pending >>
    /\ UNCHANGED << conv, currentInfo, origDocs, updatedText, textGenLimit, imageGenLimit, imageGenerations, documents,
                    disk, fileIdx, dom, imgPath, message, cancelRequested >>

\* mutant of VisitText: a failed reservation ends the walk of the document
VisitTextStopsWalk(r) ==
    /\ Scheduled(r, "walk") /\ todo[r] # <<>>
    /\ LET n == Head(todo[r]) IN
       /\ IsTextCandidate(dom[r].nodes[n])
       /\ IF CanReserve(textGenerations, textGenLimit)
          THEN /\ textGenerations' = textGenerations + 1
               /\ todo' = [todo EXCEPT ![r] = Tail(todo[r])]
               /\ cur' = [cur EXCEPT ![r] = n]
               /\ pc' = [pc EXCEPT ![r] = "rephrase"]
               /\ pending' = pending \cup {Call(r, "rephrase", n)}
               /\ Log(r, << Ev(r, "visit", n, "", TRUE, 0, <<>>),
                         Ev(r, "reserve", n, "text", TRUE, textGenerations, <<>>),
                         Ev(r, "rephrase", n, "text", TRUE, 0,
                            Trim(dom[r].nodes[n].data)) >>)
          ELSE /\ todo' = [todo EXCEPT ![r] = <<>>]
               /\ Log(r, << Ev(r, "visit", n, "", TRUE, 0, <<>>),
                         Ev(r, "reserve", n, "text", FALSE, textGenerations, <<>>) >>)
               /\ UNCHANGED << textGenerations, cur, pc, pending >>
    /\ UNCHANGED << conv, currentInfo, origDocs, updatedText, textGenLimit, imageGenLimit, imageGenerations, documents, disk,
                    fileIdx, dom, imgPath, message, cancelRequested >>

\* a text candidate: reserve, then ask the rephraser; or return
VisitText(r) ==
    /\ Scheduled(r, "walk") /\ todo[r] # <<>>
    /\ LET n == Head(todo[r]) IN
       /\ IsTextCandidate(dom[r].nodes[n])
       /\ todo' = [todo EXCEPT ![r] = Tail(todo[r])]
       /\ IF CanReserve(textGenerations, textGenLimit)
          THEN /\ textGenerations' = textGenerations + 1
               /\ cur' = [cur EXCEPT ![r] = n]
               /\ pc' = [pc EXCEPT ![r] = "rephrase"]
               /\ pending' = pending \cup {Call(r, "rephrase", n)}
               /\ Log(r, << Ev(r, "visit", n, "", TRUE, 0, <<>>),
                         Ev(r, "reserve", n, "text", TRUE, textGenerations, <<>>),
                         Ev(r, "rephrase", n, "text", TRUE, 0,
                            Trim(dom[r].nodes[n].data)) >>)
          ELSE /\ Log(r, << Ev(r, "visit", n, "", TRUE, 0, <<>>),
                         Ev(r, "reserve", n, "text", FALSE, textGenerations, <<>>) >>)
               /\ UNCHANGED << textGenerations, cur, pc, pending >>
    /\ UNCHANGED << conv, currentInfo, origDocs, updatedText, textGenLimit, imageGenLimit, imageGenerations, documents, disk,
                    fileIdx, dom, imgPath, message, cancelRequested >>

\* any other node: only its children are visited
VisitOther(r) ==
    /\ Scheduled(r, "walk") /\ todo[r] # <<>>
    /\ LET n == Head(todo[r]) IN
       /\ ~IsImageCandidate(dom[r].nodes[n])
       /\ ~IsTextCandidate(dom[r].nodes[n])
       /\ todo' = [todo EXCEPT ![r] =
                      VisitOrder(dom[r].nodes[n].children) \o Tail(todo[r])]
       /\ Log(r, << Ev(r, "visit", n, "", TRUE, 0, <<>>) >>)
    /\ UNCHANGED << conv, currentInfo, origDocs, updatedText, textGenLimit, imageGenLimit, textGenerations, imageGenerations,
                    documents, disk, pc, fileIdx, dom, cur, imgPath, message,
                    cancelRequested, pending >>

\* mutant of ResolveNotFound: the missing file is raised as an exception
ResolveNotFoundRaises(r) ==
    /\ Scheduled(r, "resolve")
    /\ GlobMatches(DOMAIN disk, CurNode(r).src) = {}
    /\ pc' = [pc EXCEPT ![r] = "failed"]
    /\ pending' = pending \ {MyCall(r, "resolve")}
    /\ Log(r, << Ev(r, "notFound", cur[r], "image", FALSE, 0, CurNode(r).src),
              Ev(r, "error", cur[r], "resolve", FALSE, 0, <<>>) >>)
    /\ UNCHANGED << conv, currentInfo, origDocs, updatedText, textGenLimit, imageGenLimit, textGenerations, imageGenerations,
                    documents, disk, fileIdx, dom, todo, cur, imgPath, message,
                    cancelRequested >>

\* getFilePathFromWorkspace found nothing: undefined, traverseNodes returns
ResolveNotFound(r) ==
    /\ Scheduled(r, "resolve")
    /\ GlobMatches(DOMAIN disk, CurNode(r).src) = {}
    /\ pc' = [pc EXCEPT ![r] = "walk"]
    /\ pending' = pending \ {MyCall(r, "resolve")}
    /\ Log(r, << Ev(r, "notFound", cur[r], "image", FALSE, 0, CurNode(r).src) >>)
    /\ UNCHANGED << conv, currentInfo, origDocs, updatedText, textGenLimit, imageGenLimit, textGenerations, imageGenerations,
                    documents, disk, fileIdx, dom, todo, cur, imgPath, message,
                    cancelRequested >>

\* mutant of ResolveFound: replaceImage is called without a reservation
ResolveFoundNoReserve(r) ==
    /\ Scheduled(r, "resolve")
    /\ \E path \in GlobMatches(DOMAIN disk, CurNode(r).src) :
          /\ imgPath' = [imgPath EXCEPT ![r] = path]
          /\ pc' = [pc EXCEPT ![r] = "convert"]
          /\ pending' = (pending \ {MyCall(r, "resolve")}) \cup {MyCall(r, "convert")}
          /\ Log(r, << Ev(r, "found", cur[r], "image", TRUE, 0, path),
                    Ev(r, "convert", cur[r], "image", TRUE, 0, path) >>)
    /\ UNCHANGED << conv, currentInfo, origDocs, updatedText, textGenLimit, imageGenLimit, textGenerations,
                    imageGenerations, documents, disk, fileIdx, dom, todo, cur,
                    message, cancelRequested >>

\* mutant of ResolveFound: the image reservation tests the text counter
ResolveFoundCheckText(r) ==
    /\ Scheduled(r, "resolve")
    /\ \E path \in GlobMatches(DOMAIN disk, CurNode(r).src) :
          IF CanReserve(textGenerations, textGenLimit)
          THEN /\ imageGenerations' = imageGenerations + 1
               /\ imgPath' = [imgPath EXCEPT ![r] = path]
               /\ pc' = [pc EXCEPT ![r] = "convert"]
               /\ pending' = (pending \ {MyCall(r, "resolve")})
                                \cup {MyCall(r, "convert")}
               /\ Log(r, << Ev(r, "found", cur[r], "image", TRUE, 0, path),
                         Ev(r, "reserve", cur[r], "image", TRUE, imageGenerations, <<>>),
                         Ev(r, "convert", cur[r], "image", TRUE, 0, path) >>)
          ELSE /\ pc' = [pc EXCEPT ![r] = "walk"]
               /\ pending' = pending \ {MyCall(r, "resolve")}
               /\ Log(r, << Ev(r, "found", cur[r], "image", TRUE, 0, path),
                         Ev(r, "reserve", cur[r], "image", FALSE, imageGenerations, <<>>) >>)
               /\ UNCHANGED << imageGenerations, imgPath >>
    /\ UNCHANGED << conv, currentInfo, origDocs, updatedText, textGenLimit, imageGenLimit, textGenerations, documents,
                    disk, fileIdx, dom, todo, cur, message, cancelRequested >>

\* getFilePathFromWorkspace returned files[0]: reserve, then replaceImage
\* starts with convertImageToPng; or return
ResolveFound(r) ==
    /\ Scheduled(r, "resolve")
    /\ \E path \in GlobMatches(DOMAIN disk, CurNode(r).src) :
          IF CanReserve(imageGenerations, imageGenLimit)
          THEN /\ imageGenerations' = imageGenerations + 1
               /\ imgPath' = [imgPath EXCEPT ![r] = path]
               /\ pc' = [pc EXCEPT ![r] = "convert"]
               /\ pending' = (pending \ {MyCall(r, "resolve")})
                                \cup {MyCall(r, "convert")}
               /\ Log(r, << Ev(r, "found", cur[r], "image", TRUE, 0, path),
                         Ev(r, "reserve", cur[r], "image", TRUE, imageGenerations, <<>>),
                         Ev(r, "convert", cur[r], "image", TRUE, 0, path) >>)
          ELSE /\ pc' = [pc EXCEPT ![r] = "walk"]
               /\ pending' = pending \ {MyCall(r, "resolve")}
               /\ Log(r, << Ev(r, "found", cur[r], "image", TRUE, 0, path),
                         Ev(r, "reserve", cur[r], "image", FALSE, imageGenerations, <<>>) >>)
               /\ UNCHANGED << imageGenerations, imgPath >>
    /\ UNCHANGED << conv, currentInfo, origDocs, updatedText, textGenLimit, imageGenLimit, textGenerations, documents, disk,
                    fileIdx, dom, todo, cur, message, cancelRequested >>

(***************************************************************************)
(* replaceImage.                                                           *)
(***************************************************************************)
PngPath(r) == replaceFileExtensionToPng(imgPath[r])

Swap(r, from, to) == pending' = (pending \ {MyCall(r, from)}) \cup {MyCall(r, to)}

\* an exception leaves traverseNodes, replaceTextsAndImages and the handler
Throw(r, from) ==
    /\ pc' = [pc EXCEPT ![r] = "failed"]
    /\ pending' = pending \ {MyCall(r, from)}
    /\ Log(r, << Ev(r, "error", cur[r], from, FALSE, 0, <<>>) >>)

\* convertImageToPng wrote the PNG; createVariation is called
ConvertOk(r) ==
    /\ Scheduled(r, "convert")
    /\ WriteFile(PngPath(r), "normalized")
    /\ pc' = [pc EXCEPT ![r] = "variation"]
    /\ Swap(r, "convert", "variation")
    /\ Log(r, << Ev(r, "write", cur[r], "normalized", TRUE, 0, PngPath(r)),
              Ev(r, "variation", cur[r], "image", TRUE, 0, PngPath(r)) >>)
    /\ UNCHANGED << conv, currentInfo, origDocs, updatedText, textGenLimit, imageGenLimit, textGenerations, imageGenerations,
                    documents, fileIdx, dom, todo, cur, imgPath, message,
                    cancelRequested >>

\* convertImageToPng caught an error and logged it; createVariation is called
ConvertError(r) ==
    /\ Scheduled(r, "convert")
    /\ pc' = [pc EXCEPT ![r] = "variation"]
    /\ Swap(r, "convert", "variation")
    /\ Log(r, << Ev(r, "convertError", cur[r], "image", FALSE, 0, PngPath(r)),
              Ev(r, "variation", cur[r], "image", TRUE, 0, PngPath(r)) >>)
    /\ UNCHANGED << conv, currentInfo, origDocs, updatedText, textGenLimit, imageGenLimit, textGenerations, imageGenerations,
                    documents, disk, fileIdx, dom, todo, cur, imgPath, message,
                    cancelRequested >>

\* createVariation answered with a locator; ky.get fetches it
VariationOk(r) ==
    /\ Scheduled(r, "variation")
    /\ PngPath(r) \in DOMAIN disk
    /\ pc' = [pc EXCEPT ![r] = "fetch"]
    /\ Swap(r, "variation", "fetch")
    /\ Log(r, << Ev(r, "fetch", cur[r], "image", TRUE, 0, <<>>) >>)
    /\ UNCHANGED << conv, currentInfo, origDocs, updatedText, textGenLimit, imageGenLimit, textGenerations, imageGenerations,
                    documents, disk, fileIdx, dom, todo, cur, imgPath, message,
                    cancelRequested >>

VariationFail(r) ==
    /\ Scheduled(r, "variation")
    /\ Throw(r, "variation")
    /\ UNCHANGED << conv, currentInfo, origDocs, updatedText, textGenLimit, imageGenLimit, textGenerations, imageGenerations,
                    documents, disk, fileIdx, dom, todo, cur, imgPath, message,
                    cancelRequested >>

\* mutant of FetchOk: the src attribute is rewritten without the write
FetchOkSrcOnly(r) ==
    /\ Scheduled(r, "fetch")
    /\ SetNode(r, cur[r], "src", replaceFileExtensionToPng(CurNode(r).src))
    /\ todo' = [todo EXCEPT ![r] = VisitOrder(CurNode(r).children) \o todo[r]]
    /\ pc' = [pc EXCEPT ![r] = "walk"]
    /\ pending' = pending \ {MyCall(r, "fetch")}
    /\ Log(r, << Ev(r, "setSrc", cur[r], "image", TRUE, 0,
                 replaceFileExtensionToPng(CurNode(r).src)) >>)
    /\ UNCHANGED << conv, currentInfo, origDocs, updatedText, textGenLimit, imageGenLimit, textGenerations, imageGenerations,
                    documents, disk, fileIdx, cur, imgPath, message, cancelRequested >>

\* the new image arrived: it is written, replaceImage returns, and
\* node.attribs.src = replaceFileExtensionToPng(srcAttribute)
FetchOk(r) ==
    /\ Scheduled(r, "fetch")
    /\ WriteFile(PngPath(r), "generated")
    /\ SetNode(r, cur[r], "src", replaceFileExtensionToPng(CurNode(r).src))
    /\ todo' = [todo EXCEPT ![r] = VisitOrder(CurNode(r).children) \o todo[r]]
    /\ pc' = [pc EXCEPT ![r] = "walk"]
    /\ pending' = pending \ {MyCall(r, "fetch")}
    /\ Log(r, << Ev(r, "write", cur[r], "generated", TRUE, 0, PngPath(r)),
              Ev(r, "setSrc", cur[r], "image", TRUE, 0,
                 replaceFileExtensionToPng(CurNode(r).src)) >>)
    /\ UNCHANGED << conv, currentInfo, origDocs, updatedText, textGenLimit, imageGenLimit, textGenerations, imageGenerations,
                    documents, fileIdx, cur, imgPath, message, cancelRequested >>

FetchFail(r) ==
    /\ Scheduled(r, "fetch")
    /\ Throw(r, "fetch")
    /\ UNCHANGED << conv, currentInfo, origDocs, updatedText, textGenLimit, imageGenLimit, textGenerations, imageGenerations,
                    documents, disk, fileIdx, dom, todo, cur, imgPath, message,
                    cancelRequested >>

\* the new image arrived but fs.writeFileSync threw: replaceImage is left
WriteFail(r) ==
    /\ Scheduled(r, "fetch")
    /\ pc' = [pc EXCEPT ![r] = "failed"]
    /\ pending' = pending \ {MyCall(r, "fetch")}
    /\ Log(r, << Ev(r, "error", cur[r], "write", FALSE, 0, PngPath(r)) >>)
    /\ UNCHANGED << conv, currentInfo, origDocs, updatedText, textGenLimit, imageGenLimit, textGenerations, imageGenerations,
                    documents, disk, fileIdx, dom, todo, cur, imgPath, message,
                    cancelRequested >>

(***************************************************************************)
(* replaceText.                                                            *)
(***************************************************************************)
\* the completion arrived: node.data = node.data.replace(originalText, it)
RephraseOk(r) ==
    /\ Scheduled(r, "rephrase")
    /\ \E replacementText \in Replies :
          LET data == ReplaceNodeData(CurNode(r).data, replacementText) IN
          /\ SetNode(r, cur[r], "data", data)
          /\ Log(r, << Ev(r, "reply", cur[r], "text", TRUE, 0, replacementText),
                    Ev(r, "setData", cur[r], "text", TRUE, 0, data) >>)
    /\ todo' = [todo EXCEPT ![r] = VisitOrder(CurNode(r).children) \o todo[r]]
    /\ pc' = [pc EXCEPT ![r] = "walk"]
    /\ pending' = pending \ {MyCall(r, "rephrase")}
    /\ UNCHANGED << conv, currentInfo, origDocs, updatedText, textGenLimit, imageGenLimit, textGenerations, imageGenerations,
                    documents, disk, fileIdx, cur, imgPath, message, cancelRequested >>

\* mutant of RephraseFail: the rejection is swallowed and the walk goes on
RephraseFailContinues(r) ==
    /\ Scheduled(r, "rephrase")
    /\ pc' = [pc EXCEPT ![r] = "walk"]
    /\ pending' = pending \ {MyCall(r, "rephrase")}
    /\ Log(r, << Ev(r, "error", cur[r], "rephrase", FALSE, 0, <<>>) >>)
    /\ UNCHANGED << conv, currentInfo, origDocs, updatedText, textGenLimit, imageGenLimit, textGenerations, imageGenerations,
                    documents, disk, fileIdx, dom, todo, cur, imgPath, message,
                    cancelRequested >>

\* the completion was rejected
RephraseFail(r) ==
    /\ Scheduled(r, "rephrase")
    /\ Throw(r, "rephrase")
    /\ UNCHANGED << conv, currentInfo, origDocs, updatedText, textGenLimit, imageGenLimit, textGenerations, imageGenerations,
                    documents, disk, fileIdx, dom, todo, cur, imgPath, message,
                    cancelRequested >>

(***************************************************************************)
(* replaceTextsAndImages: the whole-text edit.                             *)
(***************************************************************************)
\* every child of the root was walked: serialize(dom), applyEdit
WalkDone(r) ==
    /\ Scheduled(r, "walk") /\ todo[r] = <<>>
    /\ updatedText' = [updatedText EXCEPT ![r] = dom[r]]
    /\ pc' = [pc EXCEPT ![r] = "applyEdit"]
    /\ Log(r, << Ev(r, "serialize", 0, "", TRUE, 0, <<>>) >>)
    /\ UNCHANGED << conv, currentInfo, origDocs, textGenLimit, imageGenLimit, textGenerations, imageGenerations,
                    documents, disk, fileIdx, dom, todo, cur, imgPath, message,
                    cancelRequested, pending >>

ApplyEditDone(r) ==
    /\ Scheduled(r, "applyEdit")
    /\ documents' = [documents EXCEPT ![fileIdx[r]] = updatedText[r]]
    /\ Log(r, << Ev(r, "edit", 0, "", TRUE, 0, <<>>) >>)
    /\ LoopFiles(r, fileIdx[r] + 1)
    /\ UNCHANGED << conv, currentInfo, origDocs, updatedText, textGenLimit, imageGenLimit, textGenerations, imageGenerations,
                    disk, dom, todo, cur, imgPath, cancelRequested, pending >>

\* the command handler and everything it awaits
Handler(r) ==
    \/ Invoke(r)
    \/ FindFilesDone(r)
    \/ OpenDocDone(r)
    \/ VisitImage(r)
    \/ VisitText(r)
    \/ VisitOther(r)
    \/ ResolveNotFound(r)
    \/ ResolveFound(r)
    \/ ConvertOk(r)
    \/ ConvertError(r)
    \/ VariationOk(r)
    \/ VariationFail(r)
    \/ FetchOk(r)
    \/ FetchFail(r)
    \/ WriteFail(r)
    \/ RephraseOk(r)
    \/ RephraseFail(r)
    \/ WalkDone(r)
    \/ ApplyEditDone(r)

\* one invocation of the command, which the user may cancel
Next == Handler(1) \/ RequestCancel(1)

Spec == Init /\ [][Next]_vars

(***************************************************************************)
(* The command invoked again while an earlier invocation is suspended:     *)
(* both handlers run on the same module-level counters.                    *)
(***************************************************************************)
InitReentrant ==
    /\ InitWith({DocE})
    /\ Len(documents) = 1
    /\ DOMAIN disk \in {{}, {FileA, FileB}}

NextReentrant == \E r \in Runs : Handler(r)

SpecReentrant == InitReentrant /\ [][NextReentrant]_vars

(***************************************************************************)
(* The earlier tree walk, replaceTextInHtml with traverseTextNodes, which  *)
(* iterates children with forEach: no limits, text nodes only.             *)
(***************************************************************************)
\* the nodes dom.children.forEach(traverseTextNodes) reaches before it
\* returns: a text candidate suspends in updateText, every other node
\* goes on to its children at once
RECURSIVE SyncWalk(_, _)
SyncWalk(doc, ids) ==
    IF ids = <<>> THEN <<>>
    ELSE LET n == Head(ids) IN
         <<n>> \o (IF IsTextCandidate(doc.nodes[n]) THEN <<>>
                   ELSE SyncWalk(doc, doc.nodes[n].children))
               \o SyncWalk(doc, Tail(ids))

\* the history of that walk: each node visited, each candidate sent
RECURSIVE WalkEvents(_, _, _)
WalkEvents(r, doc, ids) ==
    IF ids = <<>> THEN <<>>
    ELSE LET n == Head(ids) IN
         << Ev(r, "visit", n, "", TRUE, 0, <<>>) >>
         \o (IF IsTextCandidate(doc.nodes[n])
             THEN << Ev(r, "rephrase", n, "text", TRUE, 0, Trim(doc.nodes[n].data)) >>
             ELSE <<>>)
         \o WalkEvents(r, doc, Tail(ids))

FE_LoopFiles(r, i) ==
    IF i <= Len(documents)
    THEN /\ pc' = [pc EXCEPT ![r] = "fe_openDoc"]
         /\ fileIdx' = [fileIdx EXCEPT ![r] = i]
         /\ message' = message
    ELSE /\ pc' = [pc EXCEPT ![r] = "done"]
         /\ fileIdx' = fileIdx
         /\ message' = [message EXCEPT ![r] = "complete"]

FE_Invoke(r) ==
    /\ Scheduled(r, "idle")
    /\ pc' = [pc EXCEPT ![r] = "fe_findFiles"]
    /\ Log(r, << Ev(r, "invoke", 0, "", TRUE, 0, <<>>) >>)
    /\ UNCHANGED << conv, currentInfo, origDocs, updatedText, textGenLimit, imageGenLimit, textGenerations,
                    imageGenerations, documents, disk, fileIdx, dom, todo, cur,
                    imgPath, message, cancelRequested, pending >>

FE_FindFilesDone(r) ==
    /\ Scheduled(r, "fe_findFiles")
    /\ FE_LoopFiles(r, 1)
    /\ UNCHANGED << conv, currentInfo, origDocs, updatedText, textGenLimit, imageGenLimit, textGenerations,
                    imageGenerations, documents, disk, dom, todo, cur, imgPath,
                    cancelRequested, pending, trace >>

\* openTextDocument resolved: replaceTextInHtml parses, starts updateText for
\* every text candidate, and returns serialize(dom); applyEdit is called
FE_OpenDocDone(r) ==
    /\ Scheduled(r, "fe_openDoc")
    /\ LET doc  == documents[fileIdx[r]]
           seen == SyncWalk(doc, VisitOrder(doc.roots))
       IN  /\ dom' = [dom EXCEPT ![r] = doc]
           /\ pending' = pending \cup
                 {Call(r, "rephrase", seen[k]) : k \in
                     {j \in DOMAIN seen : IsTextCandidate(doc.nodes[seen[j]])}}
           /\ updatedText' = [updatedText EXCEPT ![r] = doc]
           /\ Log(r, << Ev(r, "parse", 0, "", TRUE, 0, <<>>) >>
                  \o WalkEvents(r, doc, seen)
                  \o << Ev(r, "serialize", 0, "", TRUE, 0, <<>>) >>)
    /\ pc' = [pc EXCEPT ![r] = "fe_applyEdit"]
    /\ UNCHANGED << conv, currentInfo, origDocs, textGenLimit, imageGenLimit, textGenerations,
                    imageGenerations, documents, disk, fileIdx, todo, cur, imgPath,
                    message, cancelRequested >>

FE_ApplyEditDone(r) ==
    /\ Scheduled(r, "fe_applyEdit")
    /\ documents' = [documents EXCEPT ![fileIdx[r]] = updatedText[r]]
    /\ Log(r, << Ev(r, "edit", 0, "", TRUE, 0, <<>>) >>)
    /\ FE_LoopFiles(r, fileIdx[r] + 1)
    /\ UNCHANGED << conv, currentInfo, origDocs, updatedText, textGenLimit, imageGenLimit, textGenerations,
                    imageGenerations, disk, dom, todo, cur, imgPath, cancelRequested,
                    pending >>

\* whether dom[c.run] still is the tree the call c was started for
TreeAlive(c) ==
    fileIdx[c.run] = c.file /\ pc[c.run] \in {"fe_applyEdit", "done"}

\* a completion arrived: the callback writes node.data of its own tree
FE_CallOk(c) ==
    /\ c \in pending /\ c.kind = "rephrase"
    /\ \E replacementText \in Replies :
          LET old  == origDocs[c.file].nodes[c.node].data
              data == ReplaceNodeData(old, replacementText)
          IN  /\ dom' = IF TreeAlive(c)
                        THEN [dom EXCEPT ![c.run].nodes[c.node].data = data]
                        ELSE dom
              /\ Log(c.run, << [Ev(c.run, "reply", c.node, "text", TRUE, 0, replacementText)
                           EXCEPT !.file = c.file],
                        [Ev(c.run, "setData", c.node, "text", TRUE, 0, data)
                           EXCEPT !.file = c.file] >>)
    /\ pending' = pending \ {c}
    /\ UNCHANGED << conv, currentInfo, origDocs, updatedText, textGenLimit, imageGenLimit, textGenerations,
                    imageGenerations, documents, disk, pc, fileIdx, todo, cur, imgPath,
                    message, cancelRequested >>

\* a completion failed: the promise of the callback is rejected, nobody awaits it
FE_CallFail(c) ==
    /\ c \in pending /\ c.kind = "rephrase"
    /\ pending' = pending \ {c}
    /\ Log(c.run, << [Ev(c.run, "error", c.node, "rephrase", FALSE, 0, <<>>)
                 EXCEPT !.file = c.file] >>)
    /\ UNCHANGED << conv, currentInfo, origDocs, updatedText, textGenLimit, imageGenLimit, textGenerations,
                    imageGenerations, documents, disk, pc, fileIdx, dom, todo, cur,
                    imgPath, message, cancelRequested >>

InitForEach ==
    /\ InitWith({DocA, DocE})
    /\ textGenLimit = 0 /\ imageGenLimit = 0
    /\ DOMAIN disk = {}

NextForEach ==
    \/ FE_Invoke(1)
    \/ FE_FindFilesDone(1)
    \/ FE_OpenDocDone(1)
    \/ FE_ApplyEditDone(1)
    \/ \E c \in pending : FE_CallOk(c)
    \/ \E c \in pending : FE_CallFail(c)

SpecForEach == InitForEach /\ [][NextForEach]_vars

(***************************************************************************)
(* Reading the history.                                                    *)
(***************************************************************************)
\* the positions of the history where run r did one of ops
RunIdx(r, ops) == {i \in DOMAIN trace[r] : trace[r][i].op \in ops}

\* the positions of the history where run r, at document f, did one of ops
EvIdx(r, f, ops) == {i \in RunIdx(r, ops) : trace[r][i].file = f}

\* the nodes of those steps, in the order the steps were taken
NodesOf(r, f, ops) ==
    LET Sel(e) == e.file = f /\ e.op \in ops
        s == SelectSeq(trace[r], Sel)
    IN  [i \in 1..Len(s) |-> s[i].node]

\* what the last step added to the history
NewEvents ==
    UNION {{trace'[r][i] : i \in (Len(trace[r]) + 1)..Len(trace'[r])} : r \in Runs}

\* the nodes of a document in pre-order, children in document order
RECURSIVE PreOrder(_, _)
PreOrder(doc, ids) ==
    IF ids = <<>> THEN <<>>
    ELSE <<Head(ids)>> \o PreOrder(doc, doc.nodes[Head(ids)].children)
                       \o PreOrder(doc, Tail(ids))

\* the pre-order of a document, tabulated for the documents of the model
PreOrderOf == [d \in {DocA, DocB, DocC, DocE} |-> PreOrder(d, d.roots)]

Pre(doc) ==
    IF doc \in DOMAIN PreOrderOf THEN PreOrderOf[doc] ELSE PreOrder(doc, doc.roots)

\* Text nodes whose content is not all whitespace
EligibleText(doc) ==
    {n \in DOMAIN doc.nodes :
        /\ doc.nodes[n].type = "text"
        /\ \E k \in DOMAIN doc.nodes[n].data : ~IsWhite(doc.nodes[n].data[k])}

\* where a run is while dom[r] is the tree of document fileIdx[r]
InDocument ==
    {"walk", "resolve", "convert", "variation", "fetch", "rephrase", "applyEdit"}

Limit(kind) == IF kind = "text" THEN textGenLimit ELSE imageGenLimit
Used(kind) == IF kind = "text" THEN textGenerations ELSE imageGenerations

(***************************************************************************)
(* C1: when the walk of the first document of a run has returned, and the  *)
(* document holds M eligible text nodes with M greater than the text limit *)
(* N, exactly N nodes were sent to the rephraser, all of them eligible,    *)
(* and the other M-N eligible nodes hold their original content.           *)
(***************************************************************************)
C1_BudgetRespected ==
    \A r \in Runs :
        (pc[r] = "applyEdit" /\ fileIdx[r] = 1) =>
            LET doc  == origDocs[1]
                elig == EligibleText(doc)
                sent == {trace[r][i].node : i \in EvIdx(r, 1, {"rephrase"})}
            IN  Cardinality(elig) > textGenLimit =>
                    /\ Cardinality(EvIdx(r, 1, {"rephrase"})) = textGenLimit
                    /\ Cardinality(sent) = textGenLimit
                    /\ sent \subseteq elig
                    /\ Cardinality(elig \ sent) = Cardinality(elig) - textGenLimit
                    /\ \A n \in elig \ sent :
                          /\ dom[r].nodes[n].data = doc.nodes[n].data
                          /\ updatedText[r].nodes[n].data = doc.nodes[n].data

C1_Witness ==
    /\ pc[1] = "applyEdit" /\ fileIdx[1] = 1
    /\ textGenLimit = 2
    /\ Cardinality(EligibleText(origDocs[1])) = 3
    /\ Cardinality(EvIdx(1, 1, {"rephrase"})) = 2

(***************************************************************************)
(* C2: in every state of a run neither counter exceeds its limit.          *)
(***************************************************************************)
C2_UsedWithinLimit ==
    /\ textGenerations <= textGenLimit
    /\ imageGenerations <= imageGenLimit

C2_Witness ==
    /\ textGenLimit > 0 /\ textGenerations = textGenLimit
    /\ imageGenLimit > 0 /\ imageGenerations = imageGenLimit
    /\ \E i \in RunIdx(1, {"reserve"}) :
          trace[1][i].kind = "text" /\ ~trace[1][i].ok
    /\ \E i \in RunIdx(1, {"reserve"}) :
          trace[1][i].kind = "image" /\ ~trace[1][i].ok

(***************************************************************************)
(* C3: a reservation is one step.  It tests the counter of its kind as it  *)
(* is at that moment; it succeeds iff used < limit, and then that counter  *)
(* grows by exactly one and the other is unchanged; when it fails both     *)
(* counters are unchanged.  A step without a reservation changes no        *)
(* counter, except the reset at the start of a run.                        *)
(***************************************************************************)
C3_ReserveStep ==
    LET res == {e \in NewEvents : e.op = "reserve"}
        other(k) == IF k = "text" THEN "image" ELSE "text"
        UsedAfter(k) == IF k = "text" THEN textGenerations' ELSE imageGenerations'
    IN  /\ Cardinality(res) <= 1
        /\ \A e \in res :
              /\ e.used = Used(e.kind)
              /\ e.ok <=> (Used(e.kind) < Limit(e.kind))
              /\ UsedAfter(e.kind) = IF e.ok THEN Used(e.kind) + 1 ELSE Used(e.kind)
              /\ UsedAfter(other(e.kind)) = Used(other(e.kind))
        /\ (res = {} /\ ~\E e \in NewEvents : e.op = "invoke") =>
              /\ textGenerations' = textGenerations
              /\ imageGenerations' = imageGenerations

C3_AtomicReservation == [][C3_ReserveStep]_vars

C3_Witness ==
    \A k \in {"text", "image"} : \A b \in BOOLEAN :
        \E i \in RunIdx(1, {"reserve"}) :
            trace[1][i].kind = k /\ trace[1][i].ok = b

(***************************************************************************)
(* C4: in every state of a run the rephraser calls started are as many as  *)
(* textGenerations and the image replacements started (replaceImage, which *)
(* normalizes and then regenerates) as many as imageGenerations; each call *)
(* follows a successful reservation for its node in the same step.         *)
(***************************************************************************)
C4_NoCallWithoutReservation ==
    \A r \in Runs : pc[r] # "idle" =>
        LET calls    == RunIdx(r, {"rephrase", "convert", "variation"})
            Of(op)   == {i \in calls : trace[r][i].op = op}
        IN  /\ Cardinality(Of("rephrase")) = textGenerations
            /\ Cardinality(Of("convert")) = imageGenerations
            /\ Cardinality(Of("variation")) <= imageGenerations
            /\ \A i \in calls : trace[r][i].op # "variation" =>
                  /\ i > 1
                  /\ trace[r][i - 1].op = "reserve" /\ trace[r][i - 1].ok
                  /\ trace[r][i - 1].node = trace[r][i].node
                  /\ trace[r][i - 1].file = trace[r][i].file
                  /\ trace[r][i - 1].kind = trace[r][i].kind

C4_Witness ==
    /\ pc[1] = "done"
    /\ textGenerations = 2 /\ Cardinality(RunIdx(1, {"rephrase"})) = 2
    /\ imageGenerations = 2 /\ Cardinality(RunIdx(1, {"variation"})) = 2

(***************************************************************************)
(* C5: with image limit 0 a run never calls convertImageToPng or the       *)
(* regenerator, writes no file and rewrites no src attribute.              *)
(***************************************************************************)
C5_ImageDisabled ==
    imageGenLimit = 0 =>
        /\ \A r \in Runs :
              RunIdx(r, {"convert", "variation", "fetch", "write", "setSrc"}) = {}
        /\ \A p \in DOMAIN disk : disk[p] = "orig"
        /\ \A f \in DOMAIN documents : \A n \in DOMAIN documents[f].nodes :
              documents[f].nodes[n].src = origDocs[f].nodes[n].src
        /\ \A r \in Runs : pc[r] \in InDocument =>
              \A n \in DOMAIN dom[r].nodes :
                  dom[r].nodes[n].src = origDocs[fileIdx[r]].nodes[n].src

C5_Witness ==
    /\ imageGenLimit = 0
    /\ pc[1] = "done"
    /\ Len(documents) = 2
    /\ Cardinality(RunIdx(1, {"found"})) >= 3

(***************************************************************************)
(* C6: a text node W1 + T + W2 (T trimmed, not empty) whose trimmed        *)
(* content was answered with R holds W1 + R + W2 afterwards, and T is what *)
(* was sent.                                                               *)
(***************************************************************************)
RECURSIVE LeadingWhite(_)
LeadingWhite(s) ==
    IF s # <<>> /\ IsWhite(Head(s)) THEN <<Head(s)>> \o LeadingWhite(Tail(s)) ELSE <<>>

RECURSIVE TrailingWhite(_)
TrailingWhite(s) ==
    IF s # <<>> /\ IsWhite(s[Len(s)])
    THEN TrailingWhite(SubSeq(s, 1, Len(s) - 1)) \o <<s[Len(s)]>> ELSE <<>>

C6_WhitespacePreserved ==
    \A r \in Runs : \A i \in RunIdx(r, {"setData"}) :
        LET e   == trace[r][i]
            old == origDocs[e.file].nodes[e.node].data
            W1  == LeadingWhite(old)
            W2  == TrailingWhite(old)
            T   == SubSeq(old, Len(W1) + 1, Len(old) - Len(W2))
            R   == trace[r][i - 1].arg
        IN  /\ trace[r][i - 1].op = "reply"
            /\ e.arg = W1 \o R \o W2
            /\ \E j \in EvIdx(r, e.file, {"rephrase"}) :
                  j < i /\ trace[r][j].node = e.node /\ trace[r][j].arg = T

(***************************************************************************)
(* C7: a run has at most one generation call in flight.                    *)
(***************************************************************************)
GenerationCalls(r) ==
    {c \in pending : c.run = r /\ c.kind \in {"rephrase", "variation", "fetch"}}

C7_OneCallInFlight ==
    \A r \in Runs : Cardinality(GenerationCalls(r)) <= 1

(***************************************************************************)
(* C8: the nodes of a document are visited in pre-order, children in       *)
(* document order, and the capability calls issued for the document are,   *)
(* in order, the visited candidates that obtained a reservation.           *)
(***************************************************************************)
C8_DocumentOrder ==
    \A r \in Runs : \A f \in DOMAIN origDocs :
        LET pre      == Pre(origDocs[f])
            AtF(e)   == e.file = f
            evs      == SelectSeq(trace[r], AtF)
            IsVisit(e) == e.op = "visit"
            IsCall(e)  == e.op \in {"rephrase", "convert"}
            NodeOf(s)  == [i \in 1..Len(s) |-> s[i].node]
            visited  == NodeOf(SelectSeq(evs, IsVisit))
            calls    == NodeOf(SelectSeq(evs, IsCall))
            got      == {evs[i].node : i \in
                            {j \in DOMAIN evs : evs[j].op = "reserve" /\ evs[j].ok}}
            Got(n)   == n \in got
        IN  evs # <<>> =>
                /\ Len(visited) <= Len(pre)
                /\ visited = SubSeq(pre, 1, Len(visited))
                /\ calls = SelectSeq(visited, Got)

C8_Witness ==
    /\ pc[1] = "applyEdit"
    /\ origDocs[fileIdx[1]] = DocB
    /\ NodesOf(1, fileIdx[1], {"rephrase", "convert"}) = <<4, 5, 6>>

(***************************************************************************)
(* C9: once cancellation is requested, a node visited afterwards is not    *)
(* sent to the rephraser.                                                  *)
(***************************************************************************)
C9_CancelStep ==
    \A r \in Runs : cancelRequested[r] =>
        ~\E e \in NewEvents : e.run = r /\ e.op = "rephrase"

C9_CancelObserved == [][C9_CancelStep]_vars

(***************************************************************************)
(* C10: whenever the command is invoked, also while an earlier invocation  *)
(* is suspended, no run issues more rephraser calls than textGenLimit nor  *)
(* more image regenerations than imageGenLimit.                            *)
(***************************************************************************)
C10_PerRunBudget ==
    \A r \in Runs :
        /\ Cardinality(RunIdx(r, {"rephrase"})) <= textGenLimit
        /\ Cardinality(RunIdx(r, {"variation"})) <= imageGenLimit

(***************************************************************************)
(* C11: documents are edited in discovery order, each at most once per     *)
(* run, and when a document's whole-text edit is issued every generation   *)
(* call started for that document has resolved and, when it succeeded, its *)
(* replacement is in the tree.  Stated for both tree walks.                *)
(***************************************************************************)
\* the step that resolved the call at position j of run r's history, if any
Resolution(r, j) ==
    {k \in DOMAIN trace[r] :
        /\ k > j
        /\ trace[r][k].file = trace[r][j].file
        /\ trace[r][k].node = trace[r][j].node
        /\ trace[r][k].op \in {"setData", "setSrc", "error"}}

C11_OneEditAfterCalls ==
    \A r \in Runs :
        LET edits == RunIdx(r, {"edit"}) IN
        /\ \A i, j \in edits : i < j => trace[r][i].file < trace[r][j].file
        /\ \A i \in edits :
              \A j \in EvIdx(r, trace[r][i].file, {"rephrase", "variation"}) :
                  /\ j < i
                  /\ \E k \in Resolution(r, j) : k < i

(***************************************************************************)
(* The command with a rephraser and a regenerator that are identity        *)
(* functions: the completion is the text that was sent, the new image is   *)
(* the image that was sent, and neither call fails.                        *)
(***************************************************************************)
\* <p>a$$</p><img src="i/b.png">
DocS ==
    [roots |-> <<1, 3>>,
     nodes |-> << Tag("p", <<2>>), Text(<<"a", "$", "$">>), Img(SrcB) >>]

\* replaceText answers originalText; node.data = node.data.replace(originalText, it)
RephraseEcho(r) ==
    /\ Scheduled(r, "rephrase")
    /\ LET replacementText == Trim(CurNode(r).data)
           data == ReplaceNodeData(CurNode(r).data, replacementText)
       IN  /\ SetNode(r, cur[r], "data", data)
           /\ Log(r, << Ev(r, "reply", cur[r], "text", TRUE, 0, replacementText),
                     Ev(r, "setData", cur[r], "text", TRUE, 0, data) >>)
    /\ todo' = [todo EXCEPT ![r] = VisitOrder(CurNode(r).children) \o todo[r]]
    /\ pc' = [pc EXCEPT ![r] = "walk"]
    /\ pending' = pending \ {MyCall(r, "rephrase")}
    /\ UNCHANGED << conv, currentInfo, origDocs, updatedText, textGenLimit, imageGenLimit, textGenerations, imageGenerations,
                    documents, disk, fileIdx, cur, imgPath, message, cancelRequested >>

\* the image that was sent comes back and is written over itself;
\* node.attribs.src = replaceFileExtensionToPng(srcAttribute)
FetchEcho(r) ==
    /\ Scheduled(r, "fetch")
    /\ WriteFile(PngPath(r), disk[PngPath(r)])
    /\ SetNode(r, cur[r], "src", replaceFileExtensionToPng(CurNode(r).src))
    /\ todo' = [todo EXCEPT ![r] = VisitOrder(CurNode(r).children) \o todo[r]]
    /\ pc' = [pc EXCEPT ![r] = "walk"]
    /\ pending' = pending \ {MyCall(r, "fetch")}
    /\ Log(r, << Ev(r, "write", cur[r], disk[PngPath(r)], TRUE, 0, PngPath(r)),
              Ev(r, "setSrc", cur[r], "image", TRUE, 0,
                 replaceFileExtensionToPng(CurNode(r).src)) >>)
    /\ UNCHANGED << conv, currentInfo, origDocs, updatedText, textGenLimit, imageGenLimit, textGenerations, imageGenerations,
                    documents, fileIdx, cur, imgPath, message, cancelRequested >>

InitIdentity == InitWith({DocA, DocC, DocS})

NextIdentity ==
    \/ Invoke(1)
    \/ FindFilesDone(1)
    \/ OpenDocDone(1)
    \/ VisitImage(1)
    \/ VisitText(1)
    \/ VisitOther(1)
    \/ ResolveNotFound(1)
    \/ ResolveFound(1)
    \/ ConvertOk(1)
    \/ ConvertError(1)
    \/ VariationOk(1)
    \/ FetchEcho(1)
    \/ RephraseEcho(1)
    \/ WalkDone(1)
    \/ ApplyEditDone(1)

SpecIdentity == InitIdentity /\ [][NextIdentity]_vars

(***************************************************************************)
(* C12: with identity rephraser and regenerator, the text handed to the    *)
(* whole-text edit of a document is the document as it was: no text node   *)
(* content and no src attribute differs.                                   *)
(***************************************************************************)
C12_IdentityRoundTrip ==
    \A r \in Runs :
        pc[r] = "applyEdit" => updatedText[r] = origDocs[fileIdx[r]]

\* the two parts of C12, to tell which of them fails
C12_TextsKept ==
    \A r \in Runs : pc[r] = "applyEdit" =>
        \A n \in DOMAIN updatedText[r].nodes :
            updatedText[r].nodes[n].data = origDocs[fileIdx[r]].nodes[n].data

C12_SrcsKept ==
    \A r \in Runs : pc[r] = "applyEdit" =>
        \A n \in DOMAIN updatedText[r].nodes :
            updatedText[r].nodes[n].src = origDocs[fileIdx[r]].nodes[n].src

(***************************************************************************)
(* C13: the step in which the resolver finds no file for an image node     *)
(* raises nothing and does nothing more for that node (no reservation, no  *)
(* normalizer or regenerator call, no write, the node as it was), and it   *)
(* resumes the walk with exactly the later nodes of the document, in       *)
(* document order, still to visit.                                         *)
(***************************************************************************)
\* position of node n in the sequence s (0 when absent)
PosIn(s, n) ==
    IF \E p \in DOMAIN s : s[p] = n THEN CHOOSE p \in DOMAIN s : s[p] = n ELSE 0

C13_NotFoundStep ==
    \A r \in Runs :
        LET L == Len(trace[r]) IN
        (Len(trace'[r]) > L /\ trace'[r][L + 1].op = "notFound") =>
            LET n   == trace'[r][L + 1].node
                doc == origDocs[fileIdx[r]]
                pre == Pre(doc)
                p   == PosIn(pre, n)
            IN  /\ n = cur[r] /\ p > 0
                /\ Len(trace'[r]) = L + 1
                /\ pc[r] = "resolve" /\ pc'[r] = "walk"
                /\ \A c \in pending' : c.run # r
                /\ dom' = dom /\ dom[r].nodes[n] = doc.nodes[n]
                /\ disk' = disk /\ documents' = documents
                /\ imageGenerations' = imageGenerations
                /\ textGenerations' = textGenerations
                /\ todo'[r] = todo[r]
                /\ PreOrder(dom[r], todo[r]) = SubSeq(pre, p + 1, Len(pre))
                /\ ~\E k \in 1..L : /\ trace[r][k].file = fileIdx[r]
                                     /\ trace[r][k].node = n
                                     /\ trace[r][k].op \in {"reserve", "convert", "variation"}

C13_NotFoundSkipped == [][C13_NotFoundStep]_vars

C13_Witness ==
    /\ pc[1] = "applyEdit"
    /\ origDocs[fileIdx[1]] = DocC
    /\ \E i \in RunIdx(1, {"notFound"}) :
          /\ trace[1][i].node = 2
          /\ \E k \in RunIdx(1, {"rephrase"}) : k > i /\ trace[1][k].node = 4

(***************************************************************************)
(* C14: a failed capability call does not end the run: a run that has      *)
(* come to rest has taken every document of the workspace (parsed it, or   *)
(* skipped it because both limits were reached), also those after the      *)
(* document in which a call failed.                                        *)
(***************************************************************************)
C14_RunSurvivesFailure ==
    \A r \in Runs : pc[r] \in {"done", "failed"} =>
        \A f \in DOMAIN documents : EvIdx(r, f, {"parse", "skip"}) # {}

(***************************************************************************)
(* convertImageToPng followed step by step: the input is encoded as PNG,   *)
(* re-encoded at 90% of its width while it is larger than the ceiling, and *)
(* written; every error is caught and logged.                              *)
(***************************************************************************)
PNG_MAX_FILE_SIZE == 4 * 1024 * 1024

\* most iterations of the shrink loop that are followed
MaxIter == 12
\* the narrow images are 1..MaxStripWidth pixels wide and StripHeight high
MaxStripWidth == 6
StripHeight == 300000

\* the pictures an input file may hold
Images ==
    {[width |-> w, height |-> StripHeight] : w \in 1..MaxStripWidth}
        \cup {[width |-> 3000, height |-> 2000], [width |-> 100, height |-> 100]}

\* bytes per pixel left by the encoder: 0 when the rows compress to nothing,
\* 4 for incompressible RGBA
BytesPerPixel == {0, 1, 4}

\* info.size of toBuffer: every row is a filter byte and its pixels
EncodedSize(w, h, b) == h * (w * b + 1)

\* Math.round(currentInfo.width * 0.9); Math.round takes halves upwards and
\* w * 0.9 is a half exactly when the product in doubles is
ShrinkWidth(w) == (9 * w + 5) \div 10

\* resize({ width }) keeps the aspect ratio: the height is rounded, at least 1
ScaledHeight(info, w) ==
    LET h == (2 * info.height * w + info.width) \div (2 * info.width)
    IN  IF h < 1 THEN 1 ELSE h

\* mutant of NeedsShrink: the loop stops at twice the ceiling
NeedsShrinkTwice(info) == info.size > 2 * PNG_MAX_FILE_SIZE

\* while (currentInfo.size > PNG_MAX_FILE_SIZE)
NeedsShrink(info) == info.size > PNG_MAX_FILE_SIZE

\* the loop test with info in currentInfo, then fs.writeFileSync(outputPath,
\* currentData) once the test fails; a throw of writeFileSync is caught
LoopOrWrite(info, its) ==
    IF NeedsShrink(info)
    THEN /\ conv' = [conv EXCEPT !.pc = "resize", !.iterations = its,
                                 !.widths = @ \o <<info.width>>]
         /\ disk' = disk
    ELSE \/ /\ WriteFile(conv.outputPath, "normalized")
            /\ conv' = [conv EXCEPT !.pc = "returned", !.iterations = its,
                                    !.widths = @ \o <<info.width>>,
                                    !.written = <<info.size>>, !.outcome = "saved"]
         \/ /\ disk' = disk
            /\ conv' = [conv EXCEPT !.pc = "returned", !.iterations = its,
                                    !.widths = @ \o <<info.width>>,
                                    !.outcome = "error"]

\* convertImageToPng(inputPath, outputPath) is called as replaceImage calls it
ConvertCall ==
    /\ conv.pc = "idle"
    /\ \E inputPath \in DOMAIN disk :
          conv' = [conv EXCEPT !.pc = "encode", !.inputPath = inputPath,
                               !.outputPath = replaceFileExtensionToPng(inputPath)]
    /\ UNCHANGED << currentInfo, origDocs, updatedText, textGenLimit, imageGenLimit,
                    textGenerations, imageGenerations, documents, disk, pc, fileIdx,
                    dom, todo, cur, imgPath, message, cancelRequested, pending, trace >>

\* sharp(inputPath).png().toBuffer resolved with { data, info }
EncodeDone ==
    /\ conv.pc = "encode"
    /\ \E img \in Images : \E b \in BytesPerPixel :
          LET info == [width |-> img.width, height |-> img.height,
                       size |-> EncodedSize(img.width, img.height, b)]
          IN  /\ currentInfo' = info
              /\ LoopOrWrite(info, 0)
    /\ UNCHANGED << origDocs, updatedText, textGenLimit, imageGenLimit,
                    textGenerations, imageGenerations, documents, pc, fileIdx,
                    dom, todo, cur, imgPath, message, cancelRequested, pending, trace >>

\* sharp could not read or encode the input: caught and logged
EncodeFail ==
    /\ conv.pc = "encode"
    /\ conv' = [conv EXCEPT !.pc = "returned", !.outcome = "error"]
    /\ UNCHANGED << currentInfo, origDocs, updatedText, textGenLimit, imageGenLimit,
                    textGenerations, imageGenerations, documents, disk, pc, fileIdx,
                    dom, todo, cur, imgPath, message, cancelRequested, pending, trace >>

\* sharp(currentData).resize({ width }).toBuffer resolved: currentInfo is the
\* info of the resized image, and the loop test is made again
ResizeDone ==
    /\ conv.pc = "resize"
    /\ conv.iterations < MaxIter
    /\ \E b \in BytesPerPixel :
          LET w    == ShrinkWidth(currentInfo.width)
              h    == ScaledHeight(currentInfo, w)
              info == [width |-> w, height |-> h, size |-> EncodedSize(w, h, b)]
          IN  /\ currentInfo' = info
              /\ LoopOrWrite(info, conv.iterations + 1)
    /\ UNCHANGED << origDocs, updatedText, textGenLimit, imageGenLimit,
                    textGenerations, imageGenerations, documents, pc, fileIdx,
                    dom, todo, cur, imgPath, message, cancelRequested, pending, trace >>

\* the resize was rejected: caught and logged
ResizeFail ==
    /\ conv.pc = "resize"
    /\ conv' = [conv EXCEPT !.pc = "returned", !.outcome = "error"]
    /\ UNCHANGED << currentInfo, origDocs, updatedText, textGenLimit, imageGenLimit,
                    textGenerations, imageGenerations, documents, disk, pc, fileIdx,
                    dom, todo, cur, imgPath, message, cancelRequested, pending, trace >>

InitShrink ==
    /\ InitWith({DocA})
    /\ Len(documents) = 1
    /\ textGenLimit = 0 /\ imageGenLimit = 0
    /\ disk # << >>

NextShrink ==
    \/ ConvertCall
    \/ EncodeDone
    \/ EncodeFail
    \/ ResizeDone
    \/ ResizeFail

SpecShrink == InitShrink /\ [][NextShrink]_vars

(***************************************************************************)
(* C15: what convertImageToPng writes is at most PNG_MAX_FILE_SIZE bytes   *)
(* (4 MiB) and is the data whose size the loop tested last; the widths the *)
(* loop goes through never grow, each being 0.9 times the one before       *)
(* rounded to an integer.                                                  *)
(***************************************************************************)
C15_CeilingAndWidths ==
    /\ \A i \in DOMAIN conv.written :
          /\ conv.written[i] <= 4 * 1024 * 1024
          /\ conv.written[i] = currentInfo.size
    /\ conv.outcome = "saved" =>
          /\ Len(conv.written) = 1
          /\ conv.outputPath \in DOMAIN disk /\ disk[conv.outputPath] = "normalized"
    /\ \A i \in 1..(Len(conv.widths) - 1) :
          /\ conv.widths[i + 1] <= conv.widths[i]
          /\ 10 * conv.widths[i + 1] <= 9 * conv.widths[i] + 5
          /\ 10 * conv.widths[i + 1] > 9 * conv.widths[i] - 5

C15_Witness ==
    /\ conv.outcome = "saved"
    /\ conv.iterations >= 3
    /\ conv.widths[1] = 3000
    /\ conv.written[1] > 3 * 1024 * 1024

(***************************************************************************)
(* C16: a step changes the src attribute of an image node only when it has *)
(* just written the regenerated bytes for that node, and then from the     *)
(* original value to that value with the extension replaced by .png,       *)
(* directory and base name kept; every other step (not found, no           *)
(* reservation, regeneration or write failed) leaves every src as it was.  *)
(***************************************************************************)
\* where dom[r] is the tree of document fileIdx[r], also after a failure
HasTree == InDocument \cup {"failed"}

\* references as they occur in documents, with and without directory,
\* extension and leading slash
SomeSrcs ==
    {SrcA, SrcB, SrcX, <<"/", "r", ".", "j", "p", "e", "g">>,
     <<"d", "/", "e", ".", "f", "/", "g", ".", "g", "i", "f">>, <<"n">>,
     <<"d", "/", ".", "h">>, <<"a", ".", "b", ".", "j", "p", "g">>}

\* replaceFileExtensionToPng, tabulated
PngOf == [src \in SomeSrcs |-> replaceFileExtensionToPng(src)]

\* the rewritten reference ends in .png and keeps directory and base name
PngKeepsDirAndName ==
    \A src \in SomeSrcs :
        LET new == PathParse(PngOf[src])
            was == PathParse(src)
        IN  new.ext = PngExt /\ new.dir = was.dir /\ new.name = was.name

C16_SrcStep ==
    \A r \in Runs :
        LET L == Len(trace[r]) IN
        /\ (pc[r] = "openDoc" /\ pc'[r] = "walk") =>
              \A n \in DOMAIN dom'[r].nodes :
                  dom'[r].nodes[n].src = origDocs[fileIdx[r]].nodes[n].src
        /\ (pc[r] \in HasTree) =>
              \A n \in DOMAIN dom[r].nodes :
                  dom'[r].nodes[n].src # dom[r].nodes[n].src =>
                      /\ Len(trace'[r]) = L + 2
                      /\ trace'[r][L + 1].op = "write"
                      /\ trace'[r][L + 1].kind = "generated"
                      /\ trace'[r][L + 1].node = n
                      /\ trace'[r][L + 1].arg \in DOMAIN disk'
                      /\ disk'[trace'[r][L + 1].arg] = "generated"
                      /\ trace'[r][L + 2].op = "setSrc" /\ trace'[r][L + 2].node = n
                      /\ dom[r].nodes[n].src = origDocs[fileIdx[r]].nodes[n].src
                      /\ dom'[r].nodes[n].src = PngOf[dom[r].nodes[n].src]
                      /\ \A k \in 1..L :
                            (trace[r][k].file = fileIdx[r] /\ trace[r][k].node = n) =>
                                /\ trace[r][k].op \notin {"notFound", "error"}
                                /\ trace[r][k].op = "reserve" => trace[r][k].ok

C16_SrcAfterWrite == [][PngKeepsDirAndName /\ C16_SrcStep]_vars

C16_Witness ==
    /\ pc[1] = "failed"
    /\ origDocs[fileIdx[1]] = DocC
    /\ dom[1].nodes[2].src = <<"a", ".", "p", "n", "g">>
    /\ dom[1].nodes[3].src = SrcA
    /\ trace[1][Len(trace[1])].kind = "write"

(***************************************************************************)
(* C17: a failed rephraser or regenerator call ends the walk: nothing      *)
(* follows the failure in the run (no later node is visited), the document *)
(* gets no whole-text edit and is left as it was, whatever was already     *)
(* replaced in its tree.                                                   *)
(***************************************************************************)
C17_FailurePropagates ==
    \A r \in Runs : \A i \in RunIdx(r, {"error"}) :
        LET e == trace[r][i] IN
        /\ i = Len(trace[r])
        /\ pc[r] = "failed" /\ fileIdx[r] = e.file
        /\ EvIdx(r, e.file, {"edit", "serialize"}) = {}
        /\ documents[e.file] = origDocs[e.file]
        /\ \A k \in EvIdx(r, e.file, {"visit"}) : k < i

C17_Witness ==
    /\ pc[1] = "failed"
    /\ origDocs[fileIdx[1]] = DocB
    /\ trace[1][Len(trace[1])].kind = "variation"
    /\ Cardinality(EvIdx(1, fileIdx[1], {"setData"})) = 2
    /\ dom[1].nodes[4].data # DocB.nodes[4].data
    /\ documents[fileIdx[1]] = DocB

(***************************************************************************)
(* C18: for an image candidate the reservation comes first: the resolver   *)
(* is asked only after a reservation was attempted for the node, and a     *)
(* node whose reservation failed has had no lookup, normalization or       *)
(* regeneration.                                                           *)
(***************************************************************************)
C18_ReservationFirst ==
    \A r \in Runs :
        /\ \A i \in RunIdx(r, {"resolve"}) :
              \E k \in EvIdx(r, trace[r][i].file, {"reserve"}) :
                  k < i /\ trace[r][k].node = trace[r][i].node
        /\ \A k \in RunIdx(r, {"reserve"}) :
              (trace[r][k].kind = "image" /\ ~trace[r][k].ok) =>
                  \A i \in EvIdx(r, trace[r][k].file,
                                 {"resolve", "found", "convert", "variation"}) :
                      trace[r][i].node # trace[r][k].node

(***************************************************************************)
(* C19: when convertImageToPng fails for an image node, the node is done   *)
(* with: the regenerator is not called for it, no file is written for it,  *)
(* its src stays as it was, and the walk goes on with the next node.       *)
(***************************************************************************)
C19_NormalizationContained ==
    \A r \in Runs : \A i \in RunIdx(r, {"convertError"}) :
        LET e == trace[r][i] IN
        /\ \A k \in EvIdx(r, e.file, {"variation", "fetch", "write", "setSrc", "error"}) :
              trace[r][k].node # e.node
        /\ pc[r] # "failed"
        /\ pc[r] \in InDocument /\ fileIdx[r] = e.file =>
              dom[r].nodes[e.node].src = origDocs[e.file].nodes[e.node].src

(***************************************************************************)
(* C20: every iteration of the shrink loop makes the image strictly        *)
(* narrower, so the loop ends for every input.                             *)
(***************************************************************************)
C20_ShrinkStep ==
    (conv.pc = "resize" /\ conv'.iterations = conv.iterations + 1) =>
        currentInfo'.width < currentInfo.width

C20_StrictlyNarrower == [][C20_ShrinkStep]_vars

(***************************************************************************)
(* C21: a failed reservation does not stop the walk.  Right after a        *)
(* reservation of either kind failed for a node, the walk goes on with     *)
(* exactly the later nodes of the document still to visit and the tree as  *)
(* it was; when the walk has returned every node of the document was       *)
(* visited, every image whose file was found while image budget remained   *)
(* was normalized, and every text candidate visited while text budget      *)
(* remained was sent to the rephraser, whatever the other counter was.     *)
(***************************************************************************)
C21_WalkGoesOn ==
    \A r \in Runs :
        LET f   == fileIdx[r]
            L   == Len(trace[r])
        IN
        /\ (pc[r] \in HasTree /\ L > 0 /\ trace[r][L].op = "reserve" /\ ~trace[r][L].ok) =>
              LET pre == Pre(origDocs[f])
                  p   == PosIn(pre, trace[r][L].node)
              IN  /\ pc[r] = "walk" /\ p > 0
                  /\ PreOrder(dom[r], todo[r]) = SubSeq(pre, p + 1, Len(pre))
                  /\ dom[r].nodes[trace[r][L].node] = origDocs[f].nodes[trace[r][L].node]
        /\ pc[r] = "applyEdit" =>
              LET AtF(e)     == e.file = f
                  evs        == SelectSeq(trace[r], AtF)
                  IsVisit(e) == e.op = "visit"
                  vis        == SelectSeq(evs, IsVisit)
              IN  /\ [i \in 1..Len(vis) |-> vis[i].node] = Pre(origDocs[f])
                  /\ \A i \in DOMAIN evs :
                        /\ evs[i].op = "found" =>
                              /\ evs[i + 1].op = "reserve" /\ evs[i + 1].kind = "image"
                              /\ evs[i + 1].used < imageGenLimit =>
                                    /\ evs[i + 2].op = "convert"
                                    /\ evs[i + 2].node = evs[i].node
                        /\ (evs[i].op = "visit" /\ evs[i].node # 0
                              /\ IsTextCandidate(origDocs[f].nodes[evs[i].node])) =>
                              /\ evs[i + 1].op = "reserve" /\ evs[i + 1].kind = "text"
                              /\ evs[i + 1].used < textGenLimit =>
                                    /\ evs[i + 2].op = "rephrase"
                                    /\ evs[i + 2].node = evs[i].node

\* text budget exhausted in the middle of a document, a later image replaced
C21_Witness ==
    /\ pc[1] = "applyEdit"
    /\ origDocs[fileIdx[1]] = DocB
    /\ \E i \in EvIdx(1, fileIdx[1], {"reserve"}) :
          /\ trace[1][i].kind = "text" /\ ~trace[1][i].ok /\ trace[1][i].node = 5
          /\ \E k \in EvIdx(1, fileIdx[1], {"setSrc"}) : k > i /\ trace[1][k].node = 6
    /\ \E i \in EvIdx(1, fileIdx[1], {"visit"}) : trace[1][i].node = 8

\* image budget exhausted in the middle of a document, a later text rephrased
C21_WitnessImageFirst ==
    /\ pc[1] = "applyEdit"
    /\ origDocs[fileIdx[1]] = DocC
    /\ \E i \in EvIdx(1, fileIdx[1], {"reserve"}) :
          /\ trace[1][i].kind = "image" /\ ~trace[1][i].ok /\ trace[1][i].node = 3
          /\ \E k \in EvIdx(1, fileIdx[1], {"setData"}) : k > i /\ trace[1][k].node = 4

(***************************************************************************)
(* C22: a node that is not a candidate (a text node of whitespace only, an *)
(* element that is not an image, an image without src or with an empty     *)
(* one) is visited and nothing else: no reservation, no lookup and no call *)
(* is made for it, the step that visits it changes no counter, and it is   *)
(* the same in the tree and in the edited document as it was; the children *)
(* of an element that is not an image are all visited after it.            *)
(***************************************************************************)
\* the nodes of a document that are no candidates
NonCandidates(doc) ==
    {n \in DOMAIN doc.nodes :
        /\ n \notin EligibleText(doc)
        /\ ~(doc.nodes[n].type = "tag" /\ doc.nodes[n].name = "img"
                /\ Len(doc.nodes[n].src) > 0)}

\* the same, tabulated for the documents of the model
NonCandidatesOf == [d \in {DocA, DocB, DocC, DocE} |-> NonCandidates(d)]

C22_NonCandidatesUntouched ==
    \A r \in Runs :
        LET L  == Len(trace[r])
            f  == fileIdx[r]
        IN
        /\ \A i \in 1..L :
              LET e == trace[r][i] IN
              (e.node # 0 /\ e.node \in NonCandidatesOf[origDocs[e.file]]) =>
                  /\ e.op = "visit"
                  /\ i < L => trace[r][i + 1].op \in {"visit", "serialize"}
        /\ (pc[r] = "walk" /\ L > 0 /\ trace[r][L].op = "visit") =>
              LET n == trace[r][L].node IN
              /\ n \in NonCandidatesOf[origDocs[f]]
              /\ Cardinality(RunIdx(r, {"rephrase"})) = textGenerations
              /\ Cardinality(RunIdx(r, {"convert"})) = imageGenerations
              /\ \A c \in pending : c.run # r
              /\ Len(todo[r]) >= Len(origDocs[f].nodes[n].children)
              /\ SubSeq(todo[r], 1, Len(origDocs[f].nodes[n].children))
                    = origDocs[f].nodes[n].children
        /\ pc[r] \in HasTree =>
              \A n \in NonCandidatesOf[origDocs[f]] :
                  dom[r].nodes[n] = origDocs[f].nodes[n]
        /\ \A d \in DOMAIN documents : \A n \in NonCandidatesOf[origDocs[d]] :
              documents[d].nodes[n] = origDocs[d].nodes[n]
        /\ pc[r] = "applyEdit" =>
              \A n \in NonCandidatesOf[origDocs[f]] :
                  \A k \in 1..Len(origDocs[f].nodes[n].children) :
                      \E i, j \in EvIdx(r, f, {"visit"}) :
                          /\ i < j
                          /\ trace[r][i].node = n
                          /\ trace[r][j].node = origDocs[f].nodes[n].children[k]

\* <div>\n<p>a</p>b ..</div> walked with both budgets open: the whitespace
\* node and the two elements were only visited, the children of both
\* elements were processed
C22_Witness ==
    /\ pc[1] = "applyEdit"
    /\ origDocs[fileIdx[1]] = DocB
    /\ {1, 2, 3} \subseteq NonCandidatesOf[DocB]
    /\ \A n \in {1, 2, 3} : \E i \in EvIdx(1, fileIdx[1], {"visit"}) : trace[1][i].node = n
    /\ Cardinality(EvIdx(1, fileIdx[1], {"setData"})) = 2
    /\ Cardinality(EvIdx(1, fileIdx[1], {"setSrc"})) = 1

\* <img><img src="a.jpg">..: the image without src was only visited
C22_WitnessNoSrc ==
    /\ pc[1] = "applyEdit"
    /\ origDocs[fileIdx[1]] = DocC
    /\ 1 \in NonCandidatesOf[DocC]
    /\ \E i \in EvIdx(1, fileIdx[1], {"setSrc"}) : trace[1][i].node = 2

(***************************************************************************)
(* C23: when a document is reached it is skipped (not parsed, nothing      *)
(* written to it) exactly when both counters have reached their limits;    *)
(* otherwise it is parsed and walked from its first node, and when the     *)
(* walk returns the serialized tree replaces the whole text, also when the *)
(* tree is the document as it was.  A run that has finished has taken      *)
(* every document once: skipped it, or parsed and edited it once.          *)
(***************************************************************************)
C23_DocumentStep ==
    \A r \in Runs :
        LET L == Len(trace[r])
            f == fileIdx[r]
            exhausted == /\ textGenerations >= textGenLimit
                         /\ imageGenerations >= imageGenLimit
        IN
        /\ (pc[r] = "openDoc" /\ pc'[r] # "openDoc") =>
              /\ Len(trace'[r]) = L + 1
              /\ (trace'[r][L + 1].op = "skip") <=> exhausted
              /\ exhausted =>
                    /\ pc'[r] \in {"openDoc", "done"}
                    /\ dom' = dom /\ documents' = documents /\ pending' = pending
                    /\ pc'[r] = "openDoc" => fileIdx'[r] = f + 1
              /\ ~exhausted =>
                    /\ trace'[r][L + 1].op = "parse"
                    /\ pc'[r] = "walk"
                    /\ dom'[r] = documents[f]
                    /\ todo'[r] = documents[f].roots
                    /\ documents' = documents
        /\ (pc[r] = "walk" /\ todo[r] = <<>>) =>
              /\ pc'[r] = "applyEdit"
              /\ updatedText'[r] = dom[r]
        /\ (pc[r] = "applyEdit" /\ pc'[r] # "applyEdit") =>
              /\ documents'[f] = updatedText[r]
              /\ \A d \in DOMAIN documents : d # f => documents'[d] = documents[d]
              /\ trace'[r][L + 1].op = "edit"

\* the documents a finished run has behind it
C23_DocumentsTaken ==
    \A r \in Runs : pc[r] = "done" =>
        \A f \in DOMAIN documents :
            LET skips  == Cardinality(EvIdx(r, f, {"skip"}))
                parses == Cardinality(EvIdx(r, f, {"parse"}))
                edits  == Cardinality(EvIdx(r, f, {"edit"}))
            IN  \/ skips = 1 /\ parses = 0 /\ edits = 0 /\ documents[f] = origDocs[f]
                \/ skips = 0 /\ parses = 1 /\ edits = 1

C23_WitnessNoMutation ==
    /\ pc[1] = "done"
    /\ Len(documents) = 2
    /\ textGenLimit = 0 /\ imageGenLimit > 0 /\ imageGenerations = 0
    /\ \A f \in 1..2 : EvIdx(1, f, {"edit"}) # {} /\ documents[f] = origDocs[f]

(***************************************************************************)
(* C24: when the regenerator call or the fetch of its result fails for an  *)
(* image node, convertImageToPng having run for it, the file at the .png   *)
(* path holds the normalized image, the unit of image budget reserved for  *)
(* the node stays consumed, and the src attribute of the node is the       *)
(* original one.                                                           *)
(***************************************************************************)
\* the failures of the regenerator or of the fetch in run r's history
RegenerationFailures(r) ==
    {i \in RunIdx(r, {"error"}) : trace[r][i].kind \in {"variation", "fetch"}}

\* the file part of C24
C24_FileOverwritten ==
    \A r \in Runs : \A i \in RegenerationFailures(r) :
        /\ PngPath(r) \in DOMAIN disk
        /\ disk[PngPath(r)] = "normalized"

\* the budget and src parts of C24
C24_BudgetAndSrcKept ==
    \A r \in Runs : \A i \in RegenerationFailures(r) :
        LET e == trace[r][i] IN
        /\ \E k \in EvIdx(r, e.file, {"convert"}) : k < i /\ trace[r][k].node = e.node
        /\ \E k \in EvIdx(r, e.file, {"reserve"}) :
              /\ k < i /\ trace[r][k].node = e.node /\ trace[r][k].ok
              /\ imageGenerations = trace[r][k].used + 1
        /\ Cardinality(RunIdx(r, {"convert"})) = imageGenerations
        /\ dom[r].nodes[e.node].src = origDocs[e.file].nodes[e.node].src

C24_NoRollback == C24_FileOverwritten /\ C24_BudgetAndSrcKept

\* the regenerator failed after a normalization that wrote the file
C24_ReachedAfterWrite ==
    \E i \in RegenerationFailures(1) :
        /\ trace[1][i - 2].op = "write" /\ trace[1][i - 2].kind = "normalized"
        /\ disk[PngPath(1)] = "normalized"
        /\ imageGenerations = 1

====
